---- MODULE Spec2Model ----
(***************************************************************************)
(* Model of sqlcup (ngrash/sqlcup): the column-definition parser and the   *)
(* scaffold command.  Go strings are sequences of one-character strings,   *)
(* so that Split, Cut, Contains, ToLower and TrimSpace are computed on the *)
(* characters as the strings package computes them.                        *)
(***************************************************************************)
EXTENDS Integers, Sequences, FiniteSets, TLC

VARIABLES
    pc,                     \* position of the run
    pieces,                 \* the fragments a raw column string was typed from
    s,                      \* raw column string handed to a column parser
    fn,                     \* which column parser was called on s
    res,                    \* (column, error) returned by that parser
    flagParse,              \* what flag.CommandLine.Parse returns
    args,                   \* flag.CommandLine.Args(): positional arguments
    idColumnFlag,           \* --id-column
    onlyFlag,               \* --only
    noExistsClauseFlag,     \* --no-exists-clause
    noReturningClauseFlag,  \* --no-returning-clause
    orderByFlag,            \* --order-by
    sca,                    \* *scaffoldCommandArgs returned by the parser
    err,                    \* error returned by parseScaffoldCommandArgs
    scaffoldRan,            \* scaffoldCommand has been called
    stdout,                 \* writes made to os.Stdout, in order
    exitCode                \* process exit status, -1 while running

vars == <<pc, pieces, s, fn, res, flagParse, args, idColumnFlag, onlyFlag,
          noExistsClauseFlag, noReturningClauseFlag, orderByFlag,
          sca, err, scaffoldRan, stdout, exitCode>>

----------------------------------------------------------------------------
(* Bounds *)

MaxTags == 3        \* fragments after the name in a raw column string
MaxCols == 2        \* column arguments after the entity name

----------------------------------------------------------------------------
(* Program constants *)

plainColumnSep == ":"
smartColumnSep == "@"

exitCodeBadArgument == 1
exitCodeInternalError == 2

----------------------------------------------------------------------------
(* package strings / unicode *)

UpperLetters == <<"A","B","C","D","E","F","G","H","I","J","K","L","M",
                  "N","O","P","Q","R","S","T","U","V","W","X","Y","Z">>
LowerLetters == <<"a","b","c","d","e","f","g","h","i","j","k","l","m",
                  "n","o","p","q","r","s","t","u","v","w","x","y","z">>

\* the runes outside ASCII of the model: e with acute accent, small and
\* capital, each encoded in two bytes
runeEAcute    == "U+00E9"
runeCapEAcute == "U+00C9"

RuneToLower(c) ==
    IF \E i \in 1..26 : UpperLetters[i] = c
    THEN LowerLetters[CHOOSE i \in 1..26 : UpperLetters[i] = c]
    ELSE IF c = runeCapEAcute THEN runeEAcute
    ELSE c

RuneToUpper(c) ==
    IF \E i \in 1..26 : LowerLetters[i] = c
    THEN UpperLetters[CHOOSE i \in 1..26 : LowerLetters[i] = c]
    ELSE IF c = runeEAcute THEN runeCapEAcute
    ELSE c

\* utf8.RuneLen
RuneLen(c) == IF c \in {runeEAcute, runeCapEAcute} THEN 2 ELSE 1

\* len(str): the number of bytes of str
RECURSIVE ByteLen(_)
ByteLen(str) ==
    IF str = <<>> THEN 0 ELSE RuneLen(Head(str)) + ByteLen(Tail(str))

ToLower(str) == [i \in 1..Len(str) |-> RuneToLower(str[i])]

Contains(str, sep) == \E i \in 1..Len(str) : str[i] = sep

\* index of the first occurrence of sep in str, 0 when there is none
Index(str, sep) ==
    IF Contains(str, sep)
    THEN CHOOSE i \in 1..Len(str) :
            str[i] = sep /\ \A j \in 1..(i-1) : str[j] # sep
    ELSE 0

RECURSIVE Split(_, _)
Split(str, sep) ==
    LET i == Index(str, sep)
    IN  IF i = 0 THEN <<str>>
        ELSE <<SubSeq(str, 1, i-1)>> \o Split(SubSeq(str, i+1, Len(str)), sep)

Cut(str, sep) ==
    LET i == Index(str, sep)
    IN  IF i = 0 THEN [before |-> str, after |-> <<>>, found |-> FALSE]
        ELSE [before |-> SubSeq(str, 1, i-1),
              after  |-> SubSeq(str, i+1, Len(str)),
              found  |-> TRUE]

IsSpace(c) == c = " "

RECURSIVE TrimLeft(_)
TrimLeft(str) ==
    IF str # <<>> /\ IsSpace(Head(str)) THEN TrimLeft(Tail(str)) ELSE str

RECURSIVE TrimRight(_)
TrimRight(str) ==
    IF str # <<>> /\ IsSpace(str[Len(str)])
    THEN TrimRight(SubSeq(str, 1, Len(str)-1)) ELSE str

TrimSpace(str) == TrimRight(TrimLeft(str))

----------------------------------------------------------------------------
(* String literals of the program *)

strId       == <<"i","d">>
strNull     == <<"n","u","l","l">>
strUnique   == <<"u","n","i","q","u","e">>
strFloat    == <<"f","l","o","a","t">>
strDouble   == <<"d","o","u","b","l","e">>
strDatetime == <<"d","a","t","e","t","i","m","e">>
strText     == <<"t","e","x","t">>
strInt      == <<"i","n","t">>
strBlob     == <<"b","l","o","b">>
strAtId     == <<"@">> \o strId

sqlINTEGER  == <<"I","N","T","E","G","E","R">>
sqlFLOAT    == <<"F","L","O","A","T">>
sqlDOUBLE   == <<"D","O","U","B","L","E">>
sqlDATETIME == <<"D","A","T","E","T","I","M","E">>
sqlTEXT     == <<"T","E","X","T">>
sqlBLOB     == <<"B","L","O","B">>

sqlPrimaryKey == <<"P","R","I","M","A","R","Y"," ","K","E","Y">>
sqlNotNull    == <<"N","O","T"," ","N","U","L","L">>
sqlUnique     == <<"U","N","I","Q","U","E">>

----------------------------------------------------------------------------
(* Errors.  Every error of the program wraps errBadArgument; an error is   *)
(* modelled by the reason its message gives.                               *)

NoErr == "nil"
errBothSeparators == "invalid <column>: contains both plain and smart separators"
errNoSeparator    == "invalid <column>: expected <smart-column> or <plain-column>"
errPlainFormat    == "invalid <plain-column>: expected '<name>:<type>[:<constraint>]'"
errSmartMissingName == "invalid <smart-column>: missing <name>"
errSmartUnknownTag  == "invalid <smart-column>: unknown <tag>"
errSmartIdCombination == "invalid <smart-column>: cannot combine @id with @unique or @null"
errSmartMissingType == "invalid <smart-column>: missing column type"

errInvalidSmartColumn ==
    {errSmartMissingName, errSmartUnknownTag, errSmartIdCombination,
     errSmartMissingType}

errMissingArgs == "missing <name> and <column>"
errInvalidName == "invalid <name>: expected '<singular>/<plural>'"
errInvalidOnly == "'-only': expected 'schema' or 'queries'"

\* errors.Is(e, errBadArgument)
errBadArgument ==
    {errBothSeparators, errNoSeparator, errPlainFormat,
     errMissingArgs, errInvalidName, errInvalidOnly} \cup errInvalidSmartColumn

----------------------------------------------------------------------------
(* type column *)

column(name, type, constraint, id) ==
    [Name |-> name, Type |-> type, Constraint |-> constraint, ID |-> id]

ZeroColumn == column(<<>>, <<>>, <<>>, FALSE)

Ok(col) == [col |-> col, err |-> NoErr]
Fail(e) == [col |-> ZeroColumn, err |-> e]

----------------------------------------------------------------------------
(* parseSmartColumnDefinition *)

\* the variables colType, id, null, unique before the tag loop
NoTags == [colType |-> <<>>, id |-> FALSE, null |-> FALSE, unique |-> FALSE,
           unknown |-> FALSE]

\* applyTag with the default case of the switch dropped
applyTag_noDefault(st, tag) ==
    CASE tag = strId       -> [st EXCEPT !.id = TRUE]
      [] tag = strNull     -> [st EXCEPT !.null = TRUE]
      [] tag = strUnique   -> [st EXCEPT !.unique = TRUE]
      [] tag = strFloat    -> [st EXCEPT !.colType = sqlFLOAT]
      [] tag = strDouble   -> [st EXCEPT !.colType = sqlDOUBLE]
      [] tag = strDatetime -> [st EXCEPT !.colType = sqlDATETIME]
      [] tag = strText     -> [st EXCEPT !.colType = sqlTEXT]
      [] tag = strInt      -> [st EXCEPT !.colType = sqlINTEGER]
      [] tag = strBlob     -> [st EXCEPT !.colType = sqlBLOB]
      [] OTHER             -> st

\* one pass of the switch over a tag
applyTag(st, tag) ==
    CASE tag = strId       -> [st EXCEPT !.id = TRUE]
      [] tag = strNull     -> [st EXCEPT !.null = TRUE]
      [] tag = strUnique   -> [st EXCEPT !.unique = TRUE]
      [] tag = strFloat    -> [st EXCEPT !.colType = sqlFLOAT]
      [] tag = strDouble   -> [st EXCEPT !.colType = sqlDOUBLE]
      [] tag = strDatetime -> [st EXCEPT !.colType = sqlDATETIME]
      [] tag = strText     -> [st EXCEPT !.colType = sqlTEXT]
      [] tag = strInt      -> [st EXCEPT !.colType = sqlINTEGER]
      [] tag = strBlob     -> [st EXCEPT !.colType = sqlBLOB]
      [] OTHER             -> [st EXCEPT !.unknown = TRUE]

\* for _, tag := range tags, returning at the first unknown tag
RECURSIVE applyTags(_, _)
applyTags(st, tags) ==
    IF tags = <<>> THEN st
    ELSE LET st1 == applyTag(st, Head(tags))
         IN  IF st1.unknown THEN st1 ELSE applyTags(st1, Tail(tags))

\* smartIdColumn without the check of unique and null
smartIdColumn_noCombinationCheck(name, st) ==
    LET colType == IF st.colType = <<>> THEN sqlINTEGER ELSE st.colType
        constraint == IF colType # sqlINTEGER
                      THEN sqlNotNull \o <<" ">> \o sqlPrimaryKey
                      ELSE sqlPrimaryKey
    IN  Ok(column(name, colType, constraint, TRUE))

\* smartIdColumn without the NOT NULL prefix of the sqlite special case
smartIdColumn_noNotNull(name, st) ==
    IF st.unique \/ st.null THEN Fail(errSmartIdCombination)
    ELSE LET colType == IF st.colType = <<>> THEN sqlINTEGER ELSE st.colType
         IN  Ok(column(name, colType, sqlPrimaryKey, TRUE))

\* the branch taken when the id tag was seen
smartIdColumn(name, st) ==
    IF st.unique \/ st.null THEN Fail(errSmartIdCombination)
    ELSE LET colType == IF st.colType = <<>> THEN sqlINTEGER ELSE st.colType
             constraint == IF colType # sqlINTEGER
                           THEN sqlNotNull \o <<" ">> \o sqlPrimaryKey
                           ELSE sqlPrimaryKey
         IN  Ok(column(name, colType, constraint, TRUE))

\* smartNonIdColumn without strings.TrimSpace
smartNonIdColumn_noTrim(name, st) ==
    IF st.colType = <<>> THEN Fail(errSmartMissingType)
    ELSE LET c1 == IF ~st.null THEN <<" ">> \o sqlNotNull ELSE <<>>
             c2 == IF st.unique THEN c1 \o <<" ">> \o sqlUnique ELSE c1
         IN  Ok(column(name, st.colType, c2, FALSE))

\* smartNonIdColumn taking ID from the name as the plain parser does
smartNonIdColumn_idByName(name, st) ==
    IF st.colType = <<>> THEN Fail(errSmartMissingType)
    ELSE LET c1 == IF ~st.null THEN <<" ">> \o sqlNotNull ELSE <<>>
             c2 == IF st.unique THEN c1 \o <<" ">> \o sqlUnique ELSE c1
         IN  Ok(column(name, st.colType, TrimSpace(c2),
                       ToLower(name) = idColumnFlag))

\* the branch taken when the id tag was not seen
smartNonIdColumn(name, st) ==
    IF st.colType = <<>> THEN Fail(errSmartMissingType)
    ELSE LET c1 == IF ~st.null THEN <<" ">> \o sqlNotNull ELSE <<>>
             c2 == IF st.unique THEN c1 \o <<" ">> \o sqlUnique ELSE c1
         IN  Ok(column(name, st.colType, TrimSpace(c2), FALSE))

parseSmartColumnDefinition(str) ==
    IF str = strAtId
    THEN Ok(column(strId, sqlINTEGER, sqlPrimaryKey, TRUE))
    ELSE LET cut  == Cut(str, smartColumnSep)
             name == cut.before
             tags == Split(cut.after, smartColumnSep)
             st   == applyTags(NoTags, tags)
         IN  IF name = <<>> THEN Fail(errSmartMissingName)
             ELSE IF st.unknown THEN Fail(errSmartUnknownTag)
             ELSE IF st.id THEN smartIdColumn(name, st)
             ELSE smartNonIdColumn(name, st)

----------------------------------------------------------------------------
(* parsePlainColumnDefinition *)

\* ID: strings.ToLower(parts[0]) == *idColumnFlag
plainIsID(name) == ToLower(name) = idColumnFlag

\* parsePlainColumnDefinition without the check of an empty name
parsePlainColumnDefinition_noNameCheck(str) ==
    LET parts == Split(str, ":")
    IN  IF Len(parts) < 2 \/ Len(parts) > 3
        THEN Fail(errPlainFormat)
        ELSE Ok(column(parts[1], parts[2],
                       IF Len(parts) = 3 THEN parts[3] ELSE <<>>,
                       plainIsID(parts[1])))

parsePlainColumnDefinition(str) ==
    LET parts == Split(str, ":")
    IN  IF Len(parts) < 2 \/ Len(parts) > 3 \/ parts[1] = <<>>
        THEN Fail(errPlainFormat)
        ELSE Ok(column(parts[1], parts[2],
                       IF Len(parts) = 3 THEN parts[3] ELSE <<>>,
                       plainIsID(parts[1])))

----------------------------------------------------------------------------
(* parseColumnDefinition *)

\* parseColumnDefinition without the check of both separators
parseColumnDefinition_noBothCheck(str) ==
    LET plainColumn == Contains(str, plainColumnSep)
        smartColumn == Contains(str, smartColumnSep)
    IN  IF plainColumn THEN parsePlainColumnDefinition(str)
        ELSE IF smartColumn THEN parseSmartColumnDefinition(str)
        ELSE Fail(errNoSeparator)

parseColumnDefinition(str) ==
    LET plainColumn == Contains(str, plainColumnSep)
        smartColumn == Contains(str, smartColumnSep)
    IN  IF plainColumn /\ smartColumn THEN Fail(errBothSeparators)
        ELSE IF plainColumn THEN parsePlainColumnDefinition(str)
        ELSE IF smartColumn THEN parseSmartColumnDefinition(str)
        ELSE Fail(errNoSeparator)

----------------------------------------------------------------------------
(* type scaffoldCommandArgs.  IDColumn is a pointer: <<>> is nil, <<c>>    *)
(* points to a copy of the column c.                                       *)

outputSchema == 1
outputQueries == 2
outputAll == 3

\* a & b on uint8
RECURSIVE BitAnd(_, _)
BitAnd(a, b) ==
    IF a = 0 \/ b = 0 THEN 0
    ELSE (IF a % 2 = 1 /\ b % 2 = 1 THEN 1 ELSE 0)
         + 2 * BitAnd(a \div 2, b \div 2)

\* a | b on uint8
RECURSIVE BitOr(_, _)
BitOr(a, b) ==
    IF a = 0 THEN b
    ELSE IF b = 0 THEN a
    ELSE (IF a % 2 = 1 \/ b % 2 = 1 THEN 1 ELSE 0)
         + 2 * BitOr(a \div 2, b \div 2)

ZeroSca ==
    [Table |-> <<>>, SingularEntity |-> <<>>, PluralEntity |-> <<>>,
     IDColumn |-> <<>>, Columns |-> <<>>, NonIDColumns |-> <<>>,
     LongestName |-> 0, LongestType |-> 0, NoExistsClause |-> FALSE,
     OrderBy |-> <<>>, NoReturningClause |-> FALSE, Output |-> 0]

----------------------------------------------------------------------------
(* upperCamelCase, capitalize *)

\* r[0] of an empty rune slice: index out of range, a run-time panic
capitalizePanics(str) == str = <<>>

capitalize(str) == [str EXCEPT ![1] = RuneToUpper(str[1])]

upperCamelCasePanics(str) ==
    LET parts == Split(str, "_")
    IN  IF Len(parts) = 1 THEN capitalizePanics(str)
        ELSE \E i \in 1..Len(parts) : capitalizePanics(parts[i])

RECURSIVE capitalizeAll(_)
capitalizeAll(parts) ==
    IF parts = <<>> THEN <<>>
    ELSE capitalize(Head(parts)) \o capitalizeAll(Tail(parts))

upperCamelCase(str) ==
    LET parts == Split(str, "_")
    IN  IF Len(parts) = 1 THEN capitalize(str) ELSE capitalizeAll(parts)

----------------------------------------------------------------------------
(* parseScaffoldCommandArgs *)

strSchema  == <<"s","c","h","e","m","a">>
strQueries == <<"q","u","e","r","i","e","s">>

\* addColumn appending the identifier column to NonIDColumns as well
addColumn_noElse(sc, col) ==
    LET sc1 == IF ByteLen(col.Name) > sc.LongestName
               THEN [sc EXCEPT !.LongestName = ByteLen(col.Name)] ELSE sc
        sc2 == IF ByteLen(col.Type) > sc1.LongestType
               THEN [sc1 EXCEPT !.LongestType = ByteLen(col.Type)] ELSE sc1
        sc3 == [sc2 EXCEPT !.Columns = Append(@, col),
                           !.NonIDColumns = Append(@, col)]
    IN  IF col.ID THEN [sc3 EXCEPT !.IDColumn = <<col>>] ELSE sc3

\* the body of the loop over args[1:] after a column was parsed
addColumn(sc, col) ==
    LET sc1 == IF ByteLen(col.Name) > sc.LongestName
               THEN [sc EXCEPT !.LongestName = ByteLen(col.Name)] ELSE sc
        sc2 == IF ByteLen(col.Type) > sc1.LongestType
               THEN [sc1 EXCEPT !.LongestType = ByteLen(col.Type)] ELSE sc1
        sc3 == [sc2 EXCEPT !.Columns = Append(@, col)]
    IN  IF col.ID
        THEN [sc3 EXCEPT !.IDColumn = <<col>>]
        ELSE [sc3 EXCEPT !.NonIDColumns = Append(@, col)]

\* parseColumns going on to the next argument after an invalid column
RECURSIVE parseColumns_skipInvalid(_, _)
parseColumns_skipInvalid(sc, rest) ==
    IF rest = <<>> THEN [outcome |-> "ok", sca |-> sc, err |-> NoErr]
    ELSE LET r == parseColumnDefinition(Head(rest))
         IN  IF r.err # NoErr
             THEN parseColumns_skipInvalid(sc, Tail(rest))
             ELSE parseColumns_skipInvalid(addColumn(sc, r.col), Tail(rest))

\* for _, arg := range args[1:]
RECURSIVE parseColumns(_, _)
parseColumns(sc, rest) ==
    IF rest = <<>> THEN [outcome |-> "ok", sca |-> sc, err |-> NoErr]
    ELSE LET r == parseColumnDefinition(Head(rest))
         IN  IF r.err # NoErr
             THEN [outcome |-> "err", sca |-> ZeroSca, err |-> r.err]
             ELSE parseColumns(addColumn(sc, r.col), Tail(rest))

\* onlyOutput with the cases "schema" and "queries" exchanged
onlyOutput_swapped ==
    CASE onlyFlag = strSchema  -> BitOr(0, outputQueries)
      [] onlyFlag = strQueries -> BitOr(0, outputSchema)
      [] onlyFlag = <<>>       -> BitOr(0, outputAll)
      [] OTHER                 -> 0

\* the switch over *onlyFlag; 0 stands for the default case
onlyOutput ==
    CASE onlyFlag = strSchema  -> BitOr(0, outputSchema)
      [] onlyFlag = strQueries -> BitOr(0, outputQueries)
      [] onlyFlag = <<>>       -> BitOr(0, outputAll)
      [] OTHER                 -> 0

parseScaffoldCommandArgs(as) ==
    IF Len(as) = 0
    THEN [outcome |-> "err", sca |-> ZeroSca, err |-> errMissingArgs]
    ELSE
    LET tableParts == Split(as[1], "/")
    IN  IF Len(tableParts) # 2 \/ Len(tableParts[1]) = 0
                               \/ Len(tableParts[2]) = 0
        THEN [outcome |-> "err", sca |-> ZeroSca, err |-> errInvalidName]
        ELSE IF upperCamelCasePanics(tableParts[1])
                \/ upperCamelCasePanics(tableParts[2])
        THEN [outcome |-> "panic", sca |-> ZeroSca, err |-> NoErr]
        ELSE IF onlyOutput = 0
        THEN [outcome |-> "err", sca |-> ZeroSca, err |-> errInvalidOnly]
        ELSE parseColumns(
                [ZeroSca EXCEPT
                    !.Table = tableParts[2],
                    !.SingularEntity = upperCamelCase(tableParts[1]),
                    !.PluralEntity = upperCamelCase(tableParts[2]),
                    !.NoExistsClause = noExistsClauseFlag,
                    !.NoReturningClause = noReturningClauseFlag,
                    !.OrderBy = orderByFlag,
                    !.Output = onlyOutput],
                Tail(as))

----------------------------------------------------------------------------
(* scaffoldCommand.  Text is a sequence of writes; a write is the format   *)
(* of one Fprint/Fprintf/WriteString call with its string argument.        *)

W(f) == [f |-> f, a |-> <<>>]
Wf(f, a) == [f |-> f, a |-> a]

\* for i := 0; i < n; i++ { fmt.Fprintf(w, " ") }
Spaces(n) == [i \in 1..n |-> W(" ")]

schemaBanner ==
    << W("#############################################\n"),
       W("# Add the following to your SQL schema file #\n"),
       W("#############################################\n\n") >>

queriesBanner ==
    << W("##############################################\n"),
       W("# Add the following to your SQL queries file #\n"),
       W("##############################################\n\n") >>

\* writeSchemaColumn writing the comma after the last column too
writeSchemaColumn_alwaysComma(a, ci) ==
    LET col == a.Columns[ci]
    IN  << Wf("  %s ", col.Name) >>
        \o Spaces(a.LongestName - ByteLen(col.Name))
        \o << Wf("%s", col.Type) >>
        \o (IF col.Constraint # <<>>
            THEN Spaces(a.LongestType - ByteLen(col.Type))
                 \o << Wf(" %s", col.Constraint) >>
            ELSE <<>>)
        \o << W(","), W("\n") >>

\* one pass of the loop over args.Columns
writeSchemaColumn(a, ci) ==
    LET col == a.Columns[ci]
    IN  << Wf("  %s ", col.Name) >>
        \o Spaces(a.LongestName - ByteLen(col.Name))
        \o << Wf("%s", col.Type) >>
        \o (IF col.Constraint # <<>>
            THEN Spaces(a.LongestType - ByteLen(col.Type))
                 \o << Wf(" %s", col.Constraint) >>
            ELSE <<>>)
        \o (IF ci < Len(a.Columns) THEN << W(",") >> ELSE <<>>)
        \o << W("\n") >>

RECURSIVE writeSchemaColumns(_, _)
writeSchemaColumns(a, ci) ==
    IF ci > Len(a.Columns) THEN <<>>
    ELSE writeSchemaColumn(a, ci) \o writeSchemaColumns(a, ci + 1)

writeSchema(a) ==
    << W("CREATE TABLE ") >>
    \o (IF ~a.NoExistsClause THEN << W("IF NOT EXISTS ") >> ELSE <<>>)
    \o << Wf("%s", a.Table), W(" (\n") >>
    \o writeSchemaColumns(a, 1)
    \o << W(");") >>

writeGetQuery(a) ==
    << Wf("-- name: Get%s :one\n", a.SingularEntity),
       Wf("SELECT * FROM %s\n", a.Table),
       Wf("WHERE %s = ? LIMIT 1;", a.IDColumn[1].Name) >>

writeListQuery(a) ==
    << Wf("-- name: List%s :many\n", a.PluralEntity),
       Wf("SELECT * FROM %s", a.Table),
       IF a.OrderBy = <<>> THEN W(";")
       ELSE Wf("\nORDER BY %s;", a.OrderBy) >>

RECURSIVE writeCreateNames(_, _)
writeCreateNames(a, i) ==
    IF i > Len(a.NonIDColumns) THEN <<>>
    ELSE << Wf("%s", a.NonIDColumns[i].Name),
            IF i = Len(a.NonIDColumns) THEN W("\n") ELSE W(", ") >>
         \o writeCreateNames(a, i + 1)

writeCreateValues(a) ==
    [i \in 1..Len(a.NonIDColumns) |->
        IF i < Len(a.NonIDColumns) THEN W("?, ") ELSE W("?\n")]

writeCreateQuery(a) ==
    << Wf("-- name: Create%s :one\n", a.SingularEntity),
       Wf("INSERT INTO %s (\n", a.Table),
       W("  ") >>
    \o writeCreateNames(a, 1)
    \o << W(") VALUES (\n"), W("  ") >>
    \o writeCreateValues(a)
    \o << W(")\n"), W("RETURNING *;") >>

writeDeleteQuery(a) ==
    << Wf("-- name: Delete%s :exec\n", a.SingularEntity),
       Wf("DELETE FROM %s\n", a.Table),
       Wf("WHERE %s = ?;", a.IDColumn[1].Name) >>

\* writeUpdateSet ranging over args.Columns
writeUpdateSet_allColumns(a) ==
    [i \in 1..Len(a.Columns) |->
        IF i < Len(a.Columns)
        THEN Wf("  %s = ?,\n", a.Columns[i].Name)
        ELSE Wf("  %s = ?\n", a.Columns[i].Name)]

writeUpdateSet(a) ==
    [i \in 1..Len(a.NonIDColumns) |->
        IF i < Len(a.NonIDColumns)
        THEN Wf("  %s = ?,\n", a.NonIDColumns[i].Name)
        ELSE Wf("  %s = ?\n", a.NonIDColumns[i].Name)]

\* writeUpdateQuery with the mode :one whatever NoReturningClause is
writeUpdateQuery_modeOne(a) ==
    << Wf("-- name: Update%s :one\n", a.SingularEntity),
       Wf("UPDATE %s\n", a.Table),
       W("SET\n") >>
    \o writeUpdateSet(a)
    \o << Wf("WHERE %s = ?", a.IDColumn[1].Name),
          IF ~a.NoReturningClause THEN W("\nRETURNING *;") ELSE W(";") >>

writeUpdateQuery(a) ==
    << (IF a.NoReturningClause
        THEN Wf("-- name: Update%s :exec\n", a.SingularEntity)
        ELSE Wf("-- name: Update%s :one\n", a.SingularEntity)),
       Wf("UPDATE %s\n", a.Table),
       W("SET\n") >>
    \o writeUpdateSet(a)
    \o << Wf("WHERE %s = ?", a.IDColumn[1].Name),
          IF ~a.NoReturningClause THEN W("\nRETURNING *;") ELSE W(";") >>

\* scaffoldCommand writing the Delete query before the Create query
scaffoldCommand_deleteFirst(a) ==
    (IF BitAnd(a.Output, outputAll) = outputAll THEN schemaBanner ELSE <<>>)
    \o (IF BitAnd(a.Output, outputSchema) # 0
        THEN writeSchema(a) \o << W("\n\n") >> ELSE <<>>)
    \o (IF BitAnd(a.Output, outputAll) = outputAll THEN queriesBanner ELSE <<>>)
    \o (IF BitAnd(a.Output, outputQueries) # 0
        THEN (IF a.IDColumn # <<>>
              THEN writeGetQuery(a) \o << W("\n\n") >> ELSE <<>>)
             \o writeListQuery(a) \o << W("\n\n") >>
             \o (IF a.IDColumn # <<>>
                 THEN writeDeleteQuery(a) \o << W("\n\n") >> ELSE <<>>)
             \o writeCreateQuery(a) \o << W("\n") >>
             \o (IF a.IDColumn # <<>>
                 THEN << W("\n") >> \o writeUpdateQuery(a) \o << W("\n\n") >>
                 ELSE <<>>)
        ELSE <<>>)

\* the content of the strings.Builder that fmt.Print(b) writes
scaffoldCommand(a) ==
    (IF BitAnd(a.Output, outputAll) = outputAll THEN schemaBanner ELSE <<>>)
    \o (IF BitAnd(a.Output, outputSchema) # 0
        THEN writeSchema(a) \o << W("\n\n") >> ELSE <<>>)
    \o (IF BitAnd(a.Output, outputAll) = outputAll THEN queriesBanner ELSE <<>>)
    \o (IF BitAnd(a.Output, outputQueries) # 0
        THEN (IF a.IDColumn # <<>>
              THEN writeGetQuery(a) \o << W("\n\n") >> ELSE <<>>)
             \o writeListQuery(a) \o << W("\n\n") >>
             \o writeCreateQuery(a) \o << W("\n") >>
             \o (IF a.IDColumn # <<>>
                 THEN << W("\n") >> \o writeDeleteQuery(a) \o << W("\n\n") >>
                      \o writeUpdateQuery(a) \o << W("\n\n") >>
                 ELSE <<>>)
        ELSE <<>>)

\* printHelp: the usage text, the flag defaults and an empty line
printHelp == << W("usage"), W("flag defaults"), W("\n") >>

----------------------------------------------------------------------------
(* main: a run of the command, from the parsing of the flags on *)

strUs == <<"u","/","u","s">>

EntityNames ==
    { strUs,
      <<"z","_","i","/","z","_","i","s">>,
      <<"u">>,
      <<"/","u","s">>,
      <<"u","_","/","u","s">> }

ColumnArgs ==
    { strAtId,
      <<"p","k","@","t","e","x","t","@","i","d">>,
      <<"i","d",":","I","N","T",":","P","K">>,
      <<"n","a","m","e","@","t","e","x","t","@","u","n","i","q","u","e">>,
      <<"b","i","o",":","t","e","x","t">>,
      <<"I","d",":","T">>,
      <<"x">>,
      <<"a",":","b","@","c">>,
      <<runeEAcute,":","T">> }

OnlyFlags == { <<>>, strSchema, strQueries, <<"x">> }
OrderByFlags == { <<>>, <<"n","a","m","e">> }
RunIdColumnFlags == { strId, <<"p","k">> }

Init ==
    /\ pc = "main"
    /\ pieces = <<>>
    /\ s = <<>>
    /\ fn = "none"
    /\ res = Ok(ZeroColumn)
    /\ \/ /\ flagParse = "nil"
          /\ \/ args = <<>>
             \/ \E k \in 0..MaxCols :
                  \E e \in EntityNames, cs \in [1..k -> ColumnArgs] :
                     args = <<e>> \o cs
          /\ idColumnFlag \in RunIdColumnFlags
          /\ onlyFlag \in OnlyFlags
          /\ noExistsClauseFlag \in BOOLEAN
          /\ noReturningClauseFlag \in BOOLEAN
          /\ orderByFlag \in OrderByFlags
       \/ /\ flagParse \in {"ErrHelp", "error"}
          /\ args = <<>>
          /\ idColumnFlag = strId
          /\ onlyFlag = <<>>
          /\ noExistsClauseFlag = FALSE
          /\ noReturningClauseFlag = FALSE
          /\ orderByFlag = <<>>
    /\ sca = ZeroSca
    /\ err = NoErr
    /\ scaffoldRan = FALSE
    /\ stdout = <<>>
    /\ exitCode = -1

inputsUnchanged ==
    UNCHANGED <<pieces, s, fn, res, flagParse, args, idColumnFlag, onlyFlag,
                noExistsClauseFlag, noReturningClauseFlag, orderByFlag>>

\* MainFlagHelp ending through fatalUsageError
MainFlagHelp_asUsageError ==
    /\ pc = "main"
    /\ flagParse = "ErrHelp"
    /\ stdout' = stdout \o printHelp
    /\ exitCode' = exitCodeBadArgument
    /\ pc' = "exited"
    /\ UNCHANGED <<sca, err, scaffoldRan>>
    /\ inputsUnchanged

\* flag.CommandLine.Parse returned flag.ErrHelp: printHelp and os.Exit(0)
MainFlagHelp ==
    /\ pc = "main"
    /\ flagParse = "ErrHelp"
    /\ stdout' = stdout \o printHelp
    /\ exitCode' = 0
    /\ pc' = "exited"
    /\ UNCHANGED <<sca, err, scaffoldRan>>
    /\ inputsUnchanged

\* flag.CommandLine.Parse returned another error: fatalUsageError
MainFlagError ==
    /\ pc = "main"
    /\ flagParse = "error"
    /\ stdout' = stdout \o printHelp
    /\ exitCode' = exitCodeBadArgument
    /\ pc' = "exited"
    /\ UNCHANGED <<sca, err, scaffoldRan>>
    /\ inputsUnchanged

\* sca, err := parseScaffoldCommandArgs(...) returned an error:
\* exitWithError, which for a bad argument is fatalUsageError
MainParseError ==
    /\ pc = "main"
    /\ flagParse = "nil"
    /\ LET r == parseScaffoldCommandArgs(args)
       IN  /\ r.outcome = "err"
           /\ err' = r.err
           /\ sca' = r.sca
           /\ IF r.err \in errBadArgument
              THEN /\ stdout' = stdout \o printHelp
                   /\ exitCode' = exitCodeBadArgument
              ELSE /\ stdout' = stdout
                   /\ exitCode' = exitCodeInternalError
    /\ pc' = "exited"
    /\ UNCHANGED scaffoldRan
    /\ inputsUnchanged

\* parseScaffoldCommandArgs panicked: the run-time ends the process with
\* status 2 and a trace on standard error
MainParsePanic ==
    /\ pc = "main"
    /\ flagParse = "nil"
    /\ parseScaffoldCommandArgs(args).outcome = "panic"
    /\ exitCode' = 2
    /\ pc' = "exited"
    /\ UNCHANGED <<sca, err, scaffoldRan, stdout>>
    /\ inputsUnchanged

\* parseScaffoldCommandArgs returned the arguments
MainParseOk ==
    /\ pc = "main"
    /\ flagParse = "nil"
    /\ LET r == parseScaffoldCommandArgs(args)
       IN  /\ r.outcome = "ok"
           /\ sca' = r.sca
           /\ err' = r.err
    /\ pc' = "parsed"
    /\ UNCHANGED <<scaffoldRan, stdout, exitCode>>
    /\ inputsUnchanged

\* err = scaffoldCommand(sca), which returns nil, and main returns
MainScaffold ==
    /\ pc = "parsed"
    /\ scaffoldRan' = TRUE
    /\ stdout' = stdout \o scaffoldCommand(sca)
    /\ exitCode' = 0
    /\ pc' = "exited"
    /\ UNCHANGED <<sca, err>>
    /\ inputsUnchanged

Next ==
    \/ MainFlagHelp
    \/ MainFlagError
    \/ MainParseError
    \/ MainParsePanic
    \/ MainParseOk
    \/ MainScaffold

Spec == Init /\ [][Next]_vars

----------------------------------------------------------------------------
(* Inputs of the column parsers: a raw column string is typed as a name    *)
(* followed by at most MaxTags fragments.                                  *)

RECURSIVE Join(_)
Join(ps) == IF ps = <<>> THEN <<>> ELSE Head(ps) \o Join(Tail(ps))

NamePieces == { <<>>, strId, <<"I","d">>, <<"p","k">> }

TagPieces ==
    { <<"@">> \o t : t \in {strId, strNull, strUnique, strFloat, strDouble,
                            strDatetime, strText, strInt, strBlob,
                            <<>>, <<"I","d">>} }

PlainPieces == { <<":">>, <<":","T">>, <<":"," ","U"," ">> }

TailPieces == TagPieces \cup PlainPieces

IdColumnFlags == { strId, <<"I","D">>, <<"p","k">> }

InitCol ==
    /\ pc = "col"
    /\ \E k \in 0..MaxTags :
          \E n \in NamePieces, tl \in [1..k -> TailPieces] :
             pieces = <<n>> \o tl
    /\ s = Join(pieces)
    /\ fn = "none"
    /\ res = Ok(ZeroColumn)
    /\ flagParse = "nil"
    /\ args = <<>>
    /\ idColumnFlag \in IdColumnFlags
    /\ onlyFlag = <<>>
    /\ noExistsClauseFlag = FALSE
    /\ noReturningClauseFlag = FALSE
    /\ orderByFlag = <<>>
    /\ sca = ZeroSca
    /\ err = NoErr
    /\ scaffoldRan = FALSE
    /\ stdout = <<>>
    /\ exitCode = -1

colUnchanged ==
    UNCHANGED <<pieces, s, flagParse, args, idColumnFlag, onlyFlag, noExistsClauseFlag,
                noReturningClauseFlag, orderByFlag, sca, err, scaffoldRan,
                stdout, exitCode>>

CallParseColumnDefinition ==
    /\ pc = "col"
    /\ fn' = "column"
    /\ res' = parseColumnDefinition(s)
    /\ pc' = "returned"
    /\ colUnchanged

CallParsePlainColumnDefinition ==
    /\ pc = "col"
    /\ fn' = "plain"
    /\ res' = parsePlainColumnDefinition(s)
    /\ pc' = "returned"
    /\ colUnchanged

CallParseSmartColumnDefinition ==
    /\ pc = "col"
    /\ fn' = "smart"
    /\ res' = parseSmartColumnDefinition(s)
    /\ pc' = "returned"
    /\ colUnchanged

NextCol ==
    \/ CallParseColumnDefinition
    \/ CallParsePlainColumnDefinition
    \/ CallParseSmartColumnDefinition

SpecCol == InitCol /\ [][NextCol]_vars

----------------------------------------------------------------------------
(* What was typed, read off the fragments of the raw string.               *)

InName == pieces[1]

\* the fragments after the name are all tags: the string is name@tag@tag...
InSmartForm ==
    /\ Len(pieces) >= 2
    /\ \A i \in 2..Len(pieces) : pieces[i][1] = "@"

\* the tags typed after the name, without their '@'
InTags == [i \in 1..(Len(pieces) - 1) |-> Tail(pieces[i + 1])]

\* the ':'-separated parts typed: a ':' fragment opens a part, any other
\* fragment continues the part before it
RECURSIVE InPartsFrom(_, _)
InPartsFrom(acc, ps) ==
    IF ps = <<>> THEN acc
    ELSE LET p == Head(ps)
             n == Len(acc)
         IN  IF p[1] = ":"
             THEN InPartsFrom(Append(acc, Tail(p)), Tail(ps))
             ELSE InPartsFrom([acc EXCEPT ![n] = acc[n] \o p], Tail(ps))

InParts == InPartsFrom(<<InName>>, Tail(pieces))

TypeTags == {strText, strInt, strFloat, strDouble, strDatetime, strBlob}
TagNames == {strId, strNull, strUnique} \cup TypeTags

IsTypeTag(t) == t \in TypeTags

\* the SQL keyword the tag table gives for a type tag
SqlKeyword(t) ==
    CASE t = strText     -> sqlTEXT
      [] t = strInt      -> sqlINTEGER
      [] t = strFloat    -> sqlFLOAT
      [] t = strDouble   -> sqlDOUBLE
      [] t = strDatetime -> sqlDATETIME
      [] t = strBlob     -> sqlBLOB

HasTag(t) == \E i \in 1..Len(InTags) : InTags[i] = t
AllTagsKnown == \A i \in 1..Len(InTags) : InTags[i] \in TagNames
TypeTagsTyped == SelectSeq(InTags, IsTypeTag)
LastTypeTag == TypeTagsTyped[Len(TypeTagsTyped)]

\* a smart column as the grammar has it: a name and known tags, or "@id"
InSmartColumn ==
    /\ InSmartForm
    /\ AllTagsKnown
    /\ (InName # <<>> \/ s = strAtId)

SmartCalled == fn = "smart" \/ fn = "column"

----------------------------------------------------------------------------
(* C1: parseColumnDefinition hands a string with ':' and no '@' to the     *)
(* plain parser, a string with '@' and no ':' to the smart parser, and     *)
(* rejects a string with both or with neither separator with its own       *)
(* bad-argument error, without applying either parser.                     *)
C1_ClassifiedBySeparator ==
    fn = "column" =>
        LET colon == \E i \in 1..Len(s) : s[i] = ":"
            at    == \E i \in 1..Len(s) : s[i] = "@"
        IN  /\ (colon /\ ~at) => res = parsePlainColumnDefinition(s)
            /\ (at /\ ~colon) => res = parseSmartColumnDefinition(s)
            /\ (colon /\ at)  => res = Fail(errBothSeparators)
            /\ (~colon /\ ~at) => res = Fail(errNoSeparator)
            /\ Fail(errBothSeparators).err \in errBadArgument
            /\ Fail(errNoSeparator).err \in errBadArgument
            /\ (colon = at) => res.err \notin {errPlainFormat} \cup errInvalidSmartColumn

C1_Witness ==
    /\ fn = "column"
    /\ pieces = << <<"p","k">>, <<":","T">>, <<"@">> \o strId >>
    /\ res = Fail(errBothSeparators)

----------------------------------------------------------------------------
(* C2: parsePlainColumnDefinition splits on ':'; with 2 or 3 parts and a   *)
(* non-empty first part it returns name = part 1, type = part 2,          *)
(* constraint = part 3 verbatim or "" when absent, and isIdentifier =      *)
(* (lowercased name = identifierColumnName); otherwise it returns a        *)
(* bad-argument error and no column.                                       *)
C2_PlainColumn ==
    fn = "plain" =>
        LET parts == InParts
        IN  IF Len(parts) \in {2, 3} /\ parts[1] # <<>>
            THEN /\ res.err = NoErr
                 /\ res.col.Name = parts[1]
                 /\ res.col.Type = parts[2]
                 /\ res.col.Constraint =
                        (IF Len(parts) = 3 THEN parts[3] ELSE <<>>)
                 /\ res.col.ID = (ToLower(parts[1]) = idColumnFlag)
            ELSE /\ res.err \in errBadArgument
                 /\ res.col = ZeroColumn

C2_Witness ==
    /\ fn = "plain"
    /\ pieces = << <<"I","d">>, <<":","T">>, <<":"," ","U"," ">> >>
    /\ idColumnFlag = strId
    /\ res = Ok(column(<<"I","d">>, <<"T">>, <<" ","U"," ">>, TRUE))

----------------------------------------------------------------------------
(* C3: for a plain column isIdentifier is a case-insensitive comparison of *)
(* the name with the identifier column name: true whenever the two are     *)
(* equal ignoring case in either string, false otherwise.                  *)
C3_CaseInsensitiveIdentifier ==
    (fn = "plain" /\ res.err = NoErr) =>
        res.col.ID = (ToLower(res.col.Name) = ToLower(idColumnFlag))

----------------------------------------------------------------------------
----------------------------------------------------------------------------
(* C5: a smart column whose tags contain id together with unique or with   *)
(* null, in any order, with or without type tags, is rejected with a       *)
(* bad-argument error and no column.                                       *)
C5_IdCombinationRejected ==
    (/\ SmartCalled
     /\ InSmartForm
     /\ HasTag(strId) /\ (HasTag(strUnique) \/ HasTag(strNull))) =>
        /\ res.err \in errBadArgument
        /\ res.col = ZeroColumn
        /\ InSmartColumn => res.err = errSmartIdCombination

C5_Witness ==
    /\ fn = "smart"
    /\ pieces = << <<"p","k">>, <<"@">> \o strNull, <<"@">> \o strText,
                   <<"@">> \o strId >>
    /\ res = Fail(errSmartIdCombination)

----------------------------------------------------------------------------
----------------------------------------------------------------------------
(* C7: a smart column other than the literal "@id" is rejected with a      *)
(* bad-argument error when its name is empty or when any of its tags is    *)
(* not a tag of the table, an empty tag included, wherever that tag stands.*)
C7_MalformedSmartRejected ==
    (/\ SmartCalled
     /\ InSmartForm
     /\ s # strAtId
     /\ (InName = <<>> \/ ~AllTagsKnown)) =>
        /\ res.col = ZeroColumn
        /\ res.err \in {errSmartMissingName, errSmartUnknownTag}
        /\ res.err \in errBadArgument

C7_Witness ==
    /\ fn = "smart"
    /\ pieces = << <<"p","k">>, <<"@">> \o strText, <<"@">>,
                   <<"@">> \o strId >>
    /\ res = Fail(errSmartUnknownTag)

----------------------------------------------------------------------------
(* The column arguments of a run *)

strBioText == <<"b","i","o",":","t","e","x","t">>
strPkTextId == <<"p","k","@","t","e","x","t","@","i","d">>

bioColumn == column(<<"b","i","o">>, <<"t","e","x","t">>, <<>>, FALSE)
idColumn  == column(strId, sqlINTEGER, sqlPrimaryKey, TRUE)

ColumnInvalid(i) == parseColumnDefinition(args[i]).err # NoErr
AnyColumnInvalid == \E i \in 2..Len(args) : ColumnInvalid(i)
FirstInvalidColumn ==
    CHOOSE i \in 2..Len(args) :
        ColumnInvalid(i) /\ \A j \in 2..(i - 1) : ~ColumnInvalid(j)

IdentifierColumns == {i \in 1..Len(sca.Columns) : sca.Columns[i].ID}

IsNonID(col) == ~col.ID

----------------------------------------------------------------------------
(* C8: after parseScaffoldCommandArgs succeeds at most one column of the   *)
(* column list has isIdentifier = true; arguments naming two or more       *)
(* identifier columns are not accepted.                                    *)
C8_AtMostOneIdentifier ==
    pc = "parsed" => Cardinality(IdentifierColumns) <= 1

----------------------------------------------------------------------------
(* C9: after parseScaffoldCommandArgs succeeds Columns holds the parsed    *)
(* columns in input order, NonIDColumns is the subsequence of Columns with *)
(* isIdentifier = false in the same order, and IDColumn is set iff some    *)
(* column has isIdentifier = true, and is then equal to such a column.     *)
C9_ColumnLists ==
    pc = "parsed" =>
        /\ Len(sca.Columns) = Len(args) - 1
        /\ \A i \in 1..Len(sca.Columns) :
              sca.Columns[i] = parseColumnDefinition(args[i + 1]).col
        /\ sca.NonIDColumns = SelectSeq(sca.Columns, IsNonID)
        /\ (sca.IDColumn # <<>>) <=> (IdentifierColumns # {})
        /\ sca.IDColumn # <<>> =>
              /\ Len(sca.IDColumn) = 1
              /\ \E i \in IdentifierColumns : sca.Columns[i] = sca.IDColumn[1]

C9_Witness ==
    /\ pc = "parsed"
    /\ args = <<strUs, strBioText, strAtId>>
    /\ sca.Columns = <<bioColumn, idColumn>>
    /\ sca.NonIDColumns = <<bioColumn>>
    /\ sca.IDColumn = <<idColumn>>

----------------------------------------------------------------------------
HeadAccepted == parseScaffoldCommandArgs(<<args[1]>>).outcome = "ok"

----------------------------------------------------------------------------
(* Reading the text written by a run *)

\* query output / schema output was requested with --only
QueriesRequested == onlyFlag \in {<<>>, strQueries}
SchemaRequested  == onlyFlag \in {<<>>, strSchema}

\* the writes that start a '-- name:' line, by the query they label
LabelKind(w) ==
    CASE w.f = "-- name: Get%s :one\n"     -> "Get"
      [] w.f = "-- name: List%s :many\n"   -> "List"
      [] w.f = "-- name: Create%s :one\n"  -> "Create"
      [] w.f = "-- name: Delete%s :exec\n" -> "Delete"
      [] w.f = "-- name: Update%s :exec\n" -> "Update"
      [] w.f = "-- name: Update%s :one\n"  -> "Update"
      [] OTHER -> "none"

IsLabel(w) == LabelKind(w) # "none"

Labels == SelectSeq(stdout, IsLabel)
LabelKinds == [i \in 1..Len(Labels) |-> LabelKind(Labels[i])]

\* index in stdout of the first write of format f, 0 when there is none
FirstWrite(f) ==
    IF \E i \in 1..Len(stdout) : stdout[i].f = f
    THEN CHOOSE i \in 1..Len(stdout) :
            stdout[i].f = f /\ \A j \in 1..(i - 1) : stdout[j].f # f
    ELSE 0

\* the entity name in upper camel case: the '_'-separated segments, each
\* with its first letter in upper case, one after the other
RECURSIVE CamelOf(_, _)
CamelOf(str, atStart) ==
    IF str = <<>> THEN <<>>
    ELSE IF Head(str) = "_" THEN CamelOf(Tail(str), TRUE)
    ELSE << (IF atStart THEN RuneToUpper(Head(str)) ELSE Head(str)) >>
         \o CamelOf(Tail(str), FALSE)

\* the two halves of the entity name as typed
EntityHalf(k) ==
    LET i == CHOOSE j \in 1..Len(args[1]) : args[1][j] = "/"
    IN  IF k = 1 THEN SubSeq(args[1], 1, i - 1)
        ELSE SubSeq(args[1], i + 1, Len(args[1]))

----------------------------------------------------------------------------
(* C11: when query output is requested the labels are, in this order,      *)
(* Get<Singular>, List<Plural>, Create<Singular>, Delete<Singular>,        *)
(* Update<Singular>; List and Create are always there, Get, Delete and     *)
(* Update exactly when an identifier column exists.                        *)
C11_QueryLabels ==
    (scaffoldRan /\ QueriesRequested) =>
        /\ LabelKinds = (IF IdentifierColumns # {}
                         THEN <<"Get", "List", "Create", "Delete", "Update">>
                         ELSE <<"List", "Create">>)
        /\ \A i \in 1..Len(Labels) :
              Labels[i].a = (IF LabelKinds[i] = "List"
                             THEN CamelOf(EntityHalf(2), TRUE)
                             ELSE CamelOf(EntityHalf(1), TRUE))

C11_Witness ==
    /\ scaffoldRan
    /\ onlyFlag = strQueries
    /\ args = <<strUs, strBioText, strAtId>>
    /\ LabelKinds = <<"Get", "List", "Create", "Delete", "Update">>
    /\ Labels[1].a = <<"U">>
    /\ Labels[2].a = <<"U","s">>

----------------------------------------------------------------------------
(* C12: --only schema renders the schema block only, without banner and    *)
(* without '-- name:' line; --only queries renders the query block only,   *)
(* without banner and without CREATE TABLE; without --only both blocks are *)
(* rendered, the schema block first, each after its banner, with an empty  *)
(* line between the schema block and the banner of the queries.            *)
IsBanner(w) ==
    \/ \E i \in 1..Len(schemaBanner) : schemaBanner[i] = w
    \/ \E i \in 1..Len(queriesBanner) : queriesBanner[i] = w

Banners == SelectSeq(stdout, IsBanner)

IsCreateTable(w) == w.f = "CREATE TABLE "

C12_OutputSelector ==
    scaffoldRan =>
        /\ onlyFlag = strSchema =>
              /\ Banners = <<>>
              /\ Labels = <<>>
              /\ IsCreateTable(stdout[1])
              /\ Len(SelectSeq(stdout, IsCreateTable)) = 1
              /\ stdout[Len(stdout) - 1] = W(");")
        /\ onlyFlag = strQueries =>
              /\ Banners = <<>>
              /\ SelectSeq(stdout, IsCreateTable) = <<>>
              /\ FirstWrite(");") = 0
              /\ IsLabel(stdout[1])
        /\ onlyFlag = <<>> =>
              LET e == FirstWrite(");")
              IN  /\ SubSeq(stdout, 1, 3) = schemaBanner
                  /\ IsCreateTable(stdout[4])
                  /\ Len(SelectSeq(stdout, IsCreateTable)) = 1
                  /\ e > 4
                  /\ stdout[e + 1] = W("\n\n")
                  /\ SubSeq(stdout, e + 2, e + 4) = queriesBanner
                  /\ IsLabel(stdout[e + 5])
                  /\ Banners = schemaBanner \o queriesBanner
                  /\ \A i \in 1..(e + 4) : ~IsLabel(stdout[i])

C12_Witness ==
    /\ scaffoldRan
    /\ onlyFlag = strSchema
    /\ args = <<strUs, strBioText, strAtId>>
    /\ IsCreateTable(stdout[1])
    /\ Labels = <<>>

----------------------------------------------------------------------------
(* C13: the Update query agrees with the omitReturningClause option: when  *)
(* it is set the label is 'Update<Singular> :exec' and the statement ends  *)
(* with 'WHERE <identifier> = ?;' without RETURNING *, when it is not set  *)
(* the label is ':one' and the statement ends with 'RETURNING *;'.         *)
UpdateEmitted == \E i \in 1..Len(Labels) : LabelKinds[i] = "Update"

\* the column the queries take as the identifier: the last one with ID
IdentifierName ==
    sca.Columns[CHOOSE i \in IdentifierColumns :
                    \A j \in IdentifierColumns : j <= i].Name

C13_UpdateReturning ==
    (scaffoldRan /\ UpdateEmitted) =>
        LET n == Len(stdout)
            u == Labels[Len(Labels)]
        IN  /\ LabelKind(u) = "Update"
            /\ stdout[n] = W("\n\n")
            /\ stdout[n - 2] = Wf("WHERE %s = ?", IdentifierName)
            /\ IF noReturningClauseFlag
               THEN /\ u.f = "-- name: Update%s :exec\n"
                    /\ stdout[n - 1] = W(";")
                    /\ \A i \in FirstWrite(u.f)..n :
                          stdout[i].f # "\nRETURNING *;"
               ELSE /\ u.f = "-- name: Update%s :one\n"
                    /\ stdout[n - 1] = W("\nRETURNING *;")

C13_Witness ==
    /\ scaffoldRan
    /\ noReturningClauseFlag
    /\ args = <<strUs, strBioText, strAtId>>
    /\ Labels[Len(Labels)] = Wf("-- name: Update%s :exec\n", <<"U">>)
    /\ stdout[Len(stdout) - 1] = W(";")

----------------------------------------------------------------------------
(* C14: positional bind parameters follow the input order of the           *)
(* non-identifier columns: the Create query lists exactly their names in   *)
(* input order with one '?' per name and never the identifier column, and  *)
(* the Update query has one '<name> = ?' per non-identifier column in the  *)
(* same order, followed by the identifier column in the WHERE clause.      *)
NonIdentifierNames ==
    LET cols == SelectSeq(sca.Columns, IsNonID)
    IN  [i \in 1..Len(cols) |-> cols[i].Name]

\* the arguments of the writes of stdout[from+1 .. to-1] with a format of fs
ArgsBetween(from, to, fs) ==
    LET in(w) == w.f \in fs
        ws == SelectSeq(SubSeq(stdout, from + 1, to - 1), in)
    IN  [i \in 1..Len(ws) |-> ws[i].a]

IsAssignment(w) == w.f \in {"  %s = ?,\n", "  %s = ?\n"}

----------------------------------------------------------------------------
(* C15: the schema block is one CREATE TABLE statement for the table name, *)
(* with IF NOT EXISTS if and only if omitExistsClause is not set, one line *)
(* per column in input order (identifier column included), and a comma at  *)
(* the end of every column line but the last.                              *)
ColumnNames == [i \in 1..Len(sca.Columns) |-> sca.Columns[i].Name]

\* the positions of the line ends of stdout[from+1 .. to-1]
LineEnds(from, to) == {i \in (from + 1)..(to - 1) : stdout[i] = W("\n")}

C15_SchemaBlock ==
    (scaffoldRan /\ SchemaRequested) =>
        LET ct == FirstWrite("CREATE TABLE ")
            op == FirstWrite(" (\n")
            e  == FirstWrite(");")
            n  == Len(sca.Columns)
        IN  /\ 0 < ct /\ ct < op /\ op < e
            /\ Cardinality({i \in 1..Len(stdout) : IsCreateTable(stdout[i])}) = 1
            /\ (stdout[ct + 1] = W("IF NOT EXISTS ")) <=> ~noExistsClauseFlag
            /\ op = ct + (IF noExistsClauseFlag THEN 2 ELSE 3)
            /\ stdout[op - 1] = Wf("%s", EntityHalf(2))
            /\ ArgsBetween(op, e, {"  %s "}) = ColumnNames
            /\ Cardinality(LineEnds(op, e)) = n
            /\ \A i \in LineEnds(op, e) :
                  /\ (stdout[i - 1] = W(",")) <=> (i < e - 1)
                  /\ (i < e - 1) => stdout[i + 1].f = "  %s "
            /\ n > 0 => stdout[op + 1].f = "  %s "

C15_Witness ==
    /\ scaffoldRan
    /\ SchemaRequested
    /\ noExistsClauseFlag
    /\ args = <<strUs, strBioText, strAtId>>
    /\ stdout[FirstWrite("CREATE TABLE ") + 1] = Wf("%s", <<"u", "s">>)
    /\ Cardinality(LineEnds(FirstWrite(" (\n"), FirstWrite(");"))) = 2
    /\ Cardinality({i \in 1..Len(stdout) : stdout[i] = W(",")}) = 1

----------------------------------------------------------------------------
(* The ways a run can end, as seen from outside the process *)
UsagePrinted == \E i \in 1..Len(stdout) : stdout[i] = W("usage")

SqlWritten ==
    \E i \in 1..Len(stdout) : IsCreateTable(stdout[i]) \/ IsLabel(stdout[i])

EndsBadArgument == UsagePrinted /\ exitCode = 1 /\ ~SqlWritten
EndsInternal    == ~UsagePrinted /\ exitCode = 2 /\ ~SqlWritten
EndsSuccess     == SqlWritten /\ exitCode = 0 /\ ~UsagePrinted
EndsHelp        == UsagePrinted /\ exitCode = 0 /\ ~SqlWritten

(* C16 as stated: the process terminates in exactly one of three ways:     *)
(* usage text and status 1 on a bad-argument error, status 2 without the   *)
(* usage text on any other error, generated SQL and status 0 on success.   *)
C16_ThreeWaysToEnd ==
    pc = "exited" =>
        /\ EndsBadArgument \/ EndsInternal \/ EndsSuccess
        /\ err \in errBadArgument => EndsBadArgument
        /\ (err # NoErr /\ err \notin errBadArgument) => EndsInternal
        /\ scaffoldRan => EndsSuccess

(* C16 amended: there is a fourth way: when the flag parser reports that   *)
(* help was requested the process prints the usage text and exits with     *)
(* status 0 without any SQL; an error of the flag parser ends like a       *)
(* bad-argument error; every other run ends in one of the three ways.      *)
C16_FourWaysToEnd ==
    pc = "exited" =>
        /\ EndsBadArgument \/ EndsInternal \/ EndsSuccess \/ EndsHelp
        /\ EndsHelp <=> flagParse = "ErrHelp"
        /\ flagParse = "error" => EndsBadArgument
        /\ err \in errBadArgument => EndsBadArgument
        /\ (err # NoErr /\ err \notin errBadArgument) => EndsInternal
        /\ scaffoldRan <=> EndsSuccess

C16_Witness ==
    /\ pc = "exited"
    /\ flagParse = "ErrHelp"
    /\ stdout = printHelp
    /\ exitCode = 0
    /\ ~scaffoldRan

----------------------------------------------------------------------------
\* an entity name 'singular/plural' whose halves are made of non-empty
\* segments
EntityNameValid ==
    /\ Len(args) >= 1
    /\ LET p == Split(args[1], "/")
       IN  /\ Len(p) = 2
           /\ \A k \in 1..2 :
                 LET segs == Split(p[k], "_")
                 IN  \A j \in 1..Len(segs) : segs[j] # <<>>

(* C17: an argument list made of a valid entity name and no column is      *)
(* rejected as a bad argument and produces no SQL, as the empty argument   *)
(* list is.                                                                *)
C17_ColumnRequired ==
    (/\ pc = "exited"
     /\ flagParse = "nil"
     /\ \/ args = <<>>
        \/ Len(args) = 1 /\ EntityNameValid)
    =>  /\ err \in errBadArgument
        /\ exitCode = exitCodeBadArgument
        /\ ~scaffoldRan
        /\ ~SqlWritten

----------------------------------------------------------------------------
(* The column lines of the schema block, measured in characters *)
NameWrites == {i \in 1..Len(stdout) : stdout[i].f = "  %s "}

\* the first write after stdout[i] with format f, 0 if the line of
\* stdout[i] ends before one is found
NextInLine(i, f) ==
    LET end == CHOOSE j \in (i + 1)..Len(stdout) :
                   /\ stdout[j] = W("\n")
                   /\ \A k \in (i + 1)..(j - 1) : stdout[k] # W("\n")
        hits == {j \in (i + 1)..(end - 1) : stdout[j].f = f}
    IN  IF hits = {} THEN 0
        ELSE CHOOSE j \in hits : \A k \in hits : j <= k

TypeAt(i) == NextInLine(i, "%s")
ConstraintAt(i) == NextInLine(i, " %s")

\* the number of characters of the line before the type: two spaces, the
\* name, a space and the padding
TypeOffset(i) == 3 + Len(stdout[i].a) + (TypeAt(i) - i - 1)

\* the number of characters of the line before the constraint
ConstraintOffset(i) ==
    TypeOffset(i) + Len(stdout[TypeAt(i)].a)
        + (ConstraintAt(i) - TypeAt(i) - 1) + 1

Max(S) == IF S = {} THEN 0 ELSE CHOOSE m \in S : \A n \in S : n <= m

LongestNameLen == Max({Len(sca.Columns[i].Name) : i \in 1..Len(sca.Columns)})
LongestTypeLen == Max({Len(sca.Columns[i].Type) : i \in 1..Len(sca.Columns)})

(* C18: in the schema block every column line is padded with single spaces *)
(* only, the type starts at the same character offset in every line, set   *)
(* by the longest column name, the constraint starts at the same character *)
(* offset in every line that has one, set by the longest type name, and    *)
(* LongestName and LongestType are the maximum name and type lengths.      *)
C18_ColumnAlignment ==
    (scaffoldRan /\ SchemaRequested) =>
        /\ sca.LongestName = LongestNameLen
        /\ sca.LongestType = LongestTypeLen
        /\ \A i \in NameWrites :
              /\ TypeAt(i) > i
              /\ \A k \in (i + 1)..(TypeAt(i) - 1) : stdout[k] = W(" ")
              /\ TypeOffset(i) = 3 + LongestNameLen
              /\ ConstraintAt(i) # 0 =>
                    /\ \A k \in (TypeAt(i) + 1)..(ConstraintAt(i) - 1) :
                          stdout[k] = W(" ")
                    /\ ConstraintOffset(i) =
                          3 + LongestNameLen + LongestTypeLen + 1
        /\ \A i, j \in NameWrites :
              /\ TypeOffset(i) = TypeOffset(j)
              /\ (ConstraintAt(i) # 0 /\ ConstraintAt(j) # 0) =>
                    ConstraintOffset(i) = ConstraintOffset(j)

----------------------------------------------------------------------------
(* C19: for every entity-name argument parseScaffoldCommandArgs either     *)
(* returns a bad-argument error (the name is not 'singular/plural' with    *)
(* both halves non-empty) or returns arguments whose singular and plural   *)
(* labels are the halves in upper camel case, empty '_' segments included; *)
(* it never aborts abnormally.                                             *)
C19_EntityNameOutcomes ==
    (pc \in {"parsed", "exited"} /\ flagParse = "nil" /\ Len(args) >= 1) =>
        LET p == Split(args[1], "/")
        IN  /\ parseScaffoldCommandArgs(args).outcome # "panic"
            /\ IF Len(p) # 2 \/ p[1] = <<>> \/ p[2] = <<>>
               THEN err = errInvalidName
               ELSE \/ err \in errBadArgument \ {errInvalidName}
                    \/ /\ err = NoErr
                       /\ sca.SingularEntity = CamelOf(p[1], TRUE)
                       /\ sca.PluralEntity = CamelOf(p[2], TRUE)

----------------------------------------------------------------------------
(* C20: for a smart column isIdentifier depends only on the id tag: a      *)
(* smart column without the id tag has isIdentifier = false even when its  *)
(* name is the identifier column name, and a smart column with the id tag  *)
(* has isIdentifier = true whatever its name and the identifier column     *)
(* name option.                                                            *)
C20_SmartIdentifierByTag ==
    (SmartCalled /\ InSmartForm /\ pc = "returned" /\ res.err = NoErr) =>
        res.col.ID = HasTag(strId)

C20_Witness ==
    /\ fn = "smart"
    /\ pieces = << strId, <<"@">> \o strText >>
    /\ idColumnFlag = strId
    /\ ToLower(InName) = idColumnFlag
    /\ res.err = NoErr
    /\ res.col.Name = strId
    /\ res.col.ID = FALSE

\* the other half of the case: the id tag under a name and an option that
\* differ
C20_TaggedWitness ==
    /\ fn = "smart"
    /\ pieces = << <<"I","d">>, <<"@">> \o strId >>
    /\ idColumnFlag = <<"p","k">>
    /\ res.err = NoErr
    /\ res.col.ID = TRUE

----------------------------------------------------------------------------
\* the write that opens the Create query, 0 if none
CreateAt == FirstWrite("INSERT INTO %s (\n")

(* C21: every statement of the query block has non-empty column lists:     *)
(* whenever the Update query is written its SET clause has at least one    *)
(* '<name> = ?' assignment, and whenever the Create query is written its   *)
(* column list and its VALUES list are non-empty; this for every accepted  *)
(* argument list with a column, one whose only column is the identifier    *)
(* column included.                                                        *)
C21_NonEmptyColumnLists ==
    (scaffoldRan /\ QueriesRequested /\ Len(args) >= 2) =>
        /\ CreateAt # 0 =>
              LET cv == FirstWrite(") VALUES (\n")
                  ce == FirstWrite(")\n")
              IN  /\ ArgsBetween(CreateAt, cv, {"%s"}) # <<>>
                  /\ ArgsBetween(cv, ce, {"?, ", "?\n"}) # <<>>
        /\ UpdateEmitted =>
              \E i \in (FirstWrite("SET\n") + 1)..Len(stdout) :
                  IsAssignment(stdout[i])

====
